---- MODULE Spec2Model ----
(***************************************************************************)
(* Model of app.py of gameday-master-chef-pro2: a Flask application that   *)
(* stores one rating per (entrant, device) in a SQLite table, serves a     *)
(* leaderboard, a CSV export and a password-gated admin page.              *)
(*                                                                         *)
(* Text is modelled as a sequence of one-character strings, so that        *)
(* strip(), slicing, replace() and int() are computed, not assumed.        *)
(* A JSON value is a record [t, n, s]: t is its type, n is TWICE its       *)
(* numeric value (so 5.5 is n = 11), s is its text.                        *)
(***************************************************************************)
EXTENDS Integers, Sequences, FiniteSets, TLC

VARIABLES
    ratings,    \* the committed rows of table ratings (a set of rows)
    now,        \* the server clock, CURRENT_TIMESTAMP, in seconds
    session,    \* per browser session: the Flask session's is_admin flag
    inflight,   \* per worker: the api_rate request being handled, or Idle
    writer,     \* the worker holding SQLite's write lock, or 0
    pending,    \* the write transaction's uncommitted table
    resp,       \* the response of the request that completed last
    last,       \* history: per (entrant, device) the last accepted submission
    granted     \* history: per session, correct password POSTed and no logout since

vars == <<ratings, now, session, inflight, writer, pending, resp, last, granted>>

(* ------------------------------ bounds -------------------------------- *)

\* The clock stops advancing at MaxTime.
MaxTime == 2

\* The browser sessions (distinct session cookies).
MaxSessions == 2
Sessions == 1..MaxSessions

\* The request workers that can handle api_rate concurrently.
MaxWorkers == 2
Workers == 1..MaxWorkers

\* The devices that rate the first entrant in SpecBoard.
MaxDevices == 3

(* ------------------------------- text --------------------------------- *)

\* SQL NULL / Python None. Text is made of one-character strings, so this
\* one-element sequence is no text.
NULL == <<"NULL">>

SP == " "
QUOTE == "\""

\* str.strip() on spaces
RECURSIVE LStrip(_)
LStrip(s) == IF s # <<>> /\ Head(s) = SP THEN LStrip(Tail(s)) ELSE s

RECURSIVE RStrip(_)
RStrip(s) ==
    IF s # <<>> /\ s[Len(s)] = SP THEN RStrip(SubSeq(s, 1, Len(s) - 1)) ELSE s

Strip(s) == RStrip(LStrip(s))

\* s[:k]
Slice(s, k) == IF Len(s) <= k THEN s ELSE SubSeq(s, 1, k)

\* s.replace('"', '""')
RECURSIVE ReplaceQuote(_)
ReplaceQuote(s) ==
    IF s = <<>> THEN <<>>
    ELSE IF Head(s) = QUOTE THEN <<QUOTE, QUOTE>> \o ReplaceQuote(Tail(s))
    ELSE <<Head(s)>> \o ReplaceQuote(Tail(s))

DigitVal ==
    "0" :> 0 @@ "1" :> 1 @@ "2" :> 2 @@ "3" :> 3 @@ "4" :> 4 @@
    "5" :> 5 @@ "6" :> 6 @@ "7" :> 7 @@ "8" :> 8 @@ "9" :> 9

Digits == DOMAIN DigitVal

DigitChar == [d \in 0..9 |-> CHOOSE c \in Digits : DigitVal[c] = d]

\* str(n) for an integer
RECURSIVE StrNat(_)
StrNat(n) == IF n < 10 THEN <<DigitChar[n]>> ELSE StrNat(n \div 10) \o <<DigitChar[n % 10]>>

Str(n) == IF n < 0 THEN <<"-">> \o StrNat(-n) ELSE StrNat(n)

RECURSIVE DigitsValue(_, _)
DigitsValue(s, acc) ==
    IF s = <<>> THEN acc ELSE DigitsValue(Tail(s), 10 * acc + DigitVal[Head(s)])

AllDigits(s) == s # <<>> /\ \A i \in 1..Len(s) : s[i] \in Digits

Raise == [ok |-> FALSE, val |-> 0]
Value(v) == [ok |-> TRUE, val |-> v]

\* int(str): surrounding whitespace and one sign are allowed, then digits only
IntOfStr(s) ==
    LET t == Strip(s)
        signed == t # <<>> /\ Head(t) \in {"-", "+"}
        body == IF signed THEN Tail(t) ELSE t
    IN  IF ~AllDigits(body) THEN Raise
        ELSE IF signed /\ Head(t) = "-" THEN Value(-DigitsValue(body, 0))
        ELSE Value(DigitsValue(body, 0))

(* ------------------------------- JSON --------------------------------- *)

JNull == [t |-> "null", n |-> 0, s |-> <<>>]
JNum(twice) == [t |-> "num", n |-> twice, s |-> <<>>]
JInt(i) == JNum(2 * i)
JStr(s) == [t |-> "str", n |-> 0, s |-> s]
JBool(b) == [t |-> "bool", n |-> IF b THEN 2 ELSE 0, s |-> <<>>]

\* float -> int truncates toward zero
Trunc(twice) == IF twice >= 0 THEN twice \div 2 ELSE -((-twice) \div 2)

\* int(x) of a value data.get(...) returned; None raises TypeError
PyInt(v) ==
    CASE v.t = "num" -> Value(Trunc(v.n))
      [] v.t = "bool" -> Value(Trunc(v.n))
      [] v.t = "str" -> IntOfStr(v.s)
      [] OTHER -> Raise

\* Python truthiness of a JSON value
Truthy(v) ==
    CASE v.t = "null" -> FALSE
      [] v.t = "str" -> v.s # <<>>
      [] OTHER -> v.n # 0

JUDGE_MAX == 50

\* (data.get("judge") or "").strip()[:50] or None ; .strip of a non-str raises
PyJudge(v) ==
    IF ~Truthy(v) THEN [ok |-> TRUE, val |-> NULL]
    ELSE IF v.t # "str" THEN [ok |-> FALSE, val |-> NULL]
    ELSE LET x == Slice(Strip(v.s), JUDGE_MAX)
         IN  [ok |-> TRUE, val |-> IF x = <<>> THEN NULL ELSE x]

(* ------------------------------ the table ----------------------------- *)

ENTRANTS == <<
    <<"J","a","v","i","e","r">>,
    <<"L","i","n","d","s","a","y">>,
    <<"Y","e","s","e","n","i","a">>,
    <<"B","r","y","a","n">>,
    <<"V","i","v","i","a","n","a">>,
    <<"B","e","r","n","i","e">>,
    <<"R","o","g","e","l","i","o">>,
    <<"D","a","n","i","e","l","l","a">>,
    <<"C","o","l","l","e","e","n">>,
    <<"J","u","s","t","i","n">>,
    <<"P","a","i","g","e">>,
    <<"N","i","c">>,
    <<"M","a","r","t","h","a">>
>>

\* The first and the last valid entrant index
FIRST == 0
LAST == Len(ENTRANTS) - 1

\* 0 <= entrant_index < len(ENTRANTS)
ValidEntrant(i) == FIRST <= i /\ i < Len(ENTRANTS)

\* ENTRANTS[i], Python's 0-based index
EntrantName(i) == ENTRANTS[i + 1]

SCORE_MIN == 1
SCORE_MAX == 5

ANON == <<"a", "n", "o", "n">>

\* request.cookies.get("device_id") or "anon": an absent cookie is None, and
\* None and the empty string are both falsy
device_id_from_request(cookie) ==
    IF cookie = NULL \/ cookie = <<>> THEN ANON ELSE cookie

\* AUTOINCREMENT: one more than the largest id ever used (rows are never deleted)
NextId(table) ==
    IF table = {} THEN 1
    ELSE 1 + (CHOOSE m \in {r.id : r \in table} : \A r \in table : r.id <= m)

\* CHECK(taste BETWEEN 1 AND 5) and its two siblings
CheckConstraints(t, p, z) ==
    \A v \in {t, p, z} : SCORE_MIN <= v /\ v <= SCORE_MAX

\* UNIQUE (entrant_index, device_id): SQL NULLs never conflict with each other
Conflict(r, e, d) == r.entrant_index = e /\ d # NULL /\ r.device_id = d

\* The row an INSERT creates: id from AUTOINCREMENT, created_at from its default
NewRow(table, e, t, p, z, j, d, ts) ==
    [id |-> NextId(table), entrant_index |-> e, taste |-> t, presentation |-> p,
     easy |-> z, judge |-> j, device_id |-> d, created_at |-> ts]

\* DO UPDATE SET that forgets judge=excluded.judge
DoUpdateScoresOnly(r, t, p, z, j) ==
    [r EXCEPT !.taste = t, !.presentation = p, !.easy = z]

\* DO UPDATE SET taste=excluded.taste, presentation=..., easy=..., judge=...
DoUpdate(r, t, p, z, j) ==
    [r EXCEPT !.taste = t, !.presentation = p, !.easy = z, !.judge = j]

\* The INSERT without its ON CONFLICT clause: a second row for the pair violates
\* the UNIQUE constraint
InsertOnly(table, e, t, p, z, j, d, ts) ==
    IF ~CheckConstraints(t, p, z) \/ \E r \in table : Conflict(r, e, d)
    THEN [ok |-> FALSE, table |-> table]
    ELSE [ok |-> TRUE, table |-> table \cup {NewRow(table, e, t, p, z, j, d, ts)}]

\* INSERT INTO ratings ... ON CONFLICT(entrant_index, device_id) DO UPDATE SET ...
\* ok = FALSE is sqlite3.IntegrityError
Upsert(table, e, t, p, z, j, d, ts) ==
    LET hit == {r \in table : Conflict(r, e, d)}
    IN  IF ~CheckConstraints(t, p, z) THEN [ok |-> FALSE, table |-> table]
        ELSE IF hit = {}
        THEN [ok |-> TRUE, table |-> table \cup {NewRow(table, e, t, p, z, j, d, ts)}]
        ELSE [ok |-> TRUE,
              table |-> (table \ hit) \cup {DoUpdate(r, t, p, z, j) : r \in hit}]

(* ---------------------------- POST /api/rate -------------------------- *)

\* A request body: "none" is an absent or unparsable body, "list" a JSON array
Body(e, t, p, z, j) ==
    [kind |-> "dict", entrant_index |-> e, taste |-> t, presentation |-> p,
     easy |-> z, judge |-> j]

EmptyDict == Body(JNull, JNull, JNull, JNull, JNull)

\* request.get_json(silent=True) or {}
GetJson(body) == IF body.kind = "none" THEN EmptyDict ELSE body

NoError == "none"

\* Lines 62-76 of api_rate: conversion, then the range checks, in order
Validate(body) ==
    LET data == GetJson(body)
        e == PyInt(data.entrant_index)
        t == PyInt(data.taste)
        p == PyInt(data.presentation)
        z == PyInt(data.easy)
        j == PyJudge(data.judge)
        parsed(err) ==
            [error |-> err, entrant_index |-> e.val, taste |-> t.val,
             presentation |-> p.val, easy |-> z.val, judge |-> j.val]
    IN  IF data.kind # "dict" \/ ~e.ok \/ ~t.ok \/ ~p.ok \/ ~z.ok \/ ~j.ok
        THEN parsed("Invalid payload")
        ELSE IF ~ValidEntrant(e.val) THEN parsed("Invalid entrant")
        ELSE IF \E v \in {t.val, p.val, z.val} : v < SCORE_MIN \/ v > SCORE_MAX
        THEN parsed("Scores must be 1-5")
        ELSE parsed(NoError)

(* ------------------------------ responses ----------------------------- *)

NoRating == [null |-> TRUE, taste |-> 0, presentation |-> 0, easy |-> 0, judge |-> NULL]

\* dict(row) of SELECT taste, presentation, easy, judge
RatingOf(r) ==
    [null |-> FALSE, taste |-> r.taste, presentation |-> r.presentation,
     easy |-> r.easy, judge |-> r.judge]

\* A response. kind names the route; sess, device, arg and entrant say who asked
\* for what; the other fields are the payload of the route (unused ones stay empty).
NoResp ==
    [kind |-> "none", status |-> 0, ok |-> FALSE, error |-> NoError,
     sess |-> 0, device |-> NULL, arg |-> NULL, entrant |-> -1,
     rating |-> NoRating,
     entries |-> <<>>, rows |-> <<>>, lines |-> <<>>, view |-> ""]

HTTP_OK == 200
HTTP_BAD_REQUEST == 400
HTTP_SERVER_ERROR == 500
HTTP_FOUND == 302

\* jsonify({"ok": False, "error": err}), 400
RateError(err) ==
    [NoResp EXCEPT !.kind = "rate", !.status = HTTP_BAD_REQUEST, !.error = err]

\* jsonify({"ok": True})
RateOk == [NoResp EXCEPT !.kind = "rate", !.status = HTTP_OK, !.ok = TRUE]

\* An uncaught sqlite3.IntegrityError: Flask answers 500
RateFailure ==
    [NoResp EXCEPT !.kind = "rate", !.status = HTTP_SERVER_ERROR,
                   !.error = "IntegrityError"]

(* ------------------------------- history ------------------------------ *)

\* last after the submission (e, d) with values t, p, z, j was accepted at time ts
Record(hist, e, d, t, p, z, j, ts) ==
    LET k == <<e, d>>
        first == IF k \in DOMAIN hist THEN hist[k].first ELSE ts
    IN  (k :> [taste |-> t, presentation |-> p, easy |-> z, judge |-> j,
               first |-> first, at |-> ts]) @@ hist

(* ------------------------------- actions ------------------------------ *)

Idle ==
    [pc |-> "idle", entrant_index |-> 0, taste |-> 0, presentation |-> 0,
     easy |-> 0, judge |-> NULL, device_id |-> NULL]

Quiet == writer = 0 /\ \A w \in Workers : inflight[w] = Idle

Init ==
    /\ ratings = {}
    /\ now = 0
    /\ session = [s \in Sessions |-> FALSE]
    /\ inflight = [w \in Workers |-> Idle]
    /\ writer = 0
    /\ pending = {}
    /\ resp = NoResp
    /\ last = <<>>
    /\ granted = [s \in Sessions |-> FALSE]

\* The server clock advances by one second.
Tick ==
    /\ now < MaxTime
    /\ now' = now + 1
    /\ UNCHANGED <<ratings, session, inflight, writer, pending, resp, last, granted>>

\* POST /api/rate handled from start to end with no other writer in between
api_rate(body, cookie) ==
    LET v == Validate(body)
        d == device_id_from_request(cookie)
        u == Upsert(ratings, v.entrant_index, v.taste, v.presentation, v.easy,
                    v.judge, d, now)
    IN  /\ Quiet
        /\ IF v.error # NoError
           THEN /\ resp' = RateError(v.error)
                /\ UNCHANGED <<ratings, last>>
           ELSE IF ~u.ok
           THEN /\ resp' = RateFailure
                /\ UNCHANGED <<ratings, last>>
           ELSE /\ ratings' = u.table
                /\ resp' = RateOk
                /\ last' = Record(last, v.entrant_index, d, v.taste,
                                  v.presentation, v.easy, v.judge, now)
        /\ UNCHANGED <<now, session, inflight, writer, pending, granted>>

\* request.args.get("entrant_index", "-1")
ArgOrDefault(arg) == IF arg = NULL THEN <<"-", "1">> ELSE arg

MyRating(arg, d, e, rating) ==
    [NoResp EXCEPT !.kind = "my-rating", !.status = HTTP_OK, !.ok = TRUE,
                   !.arg = arg, !.device = d, !.entrant = e, !.rating = rating]

\* The SELECT without its device_id condition
SelectAnyDevice(table, e, d) == {r \in table : r.entrant_index = e}

\* SELECT ... FROM ratings WHERE entrant_index=? AND device_id=?
SelectRating(table, e, d) ==
    {r \in table : r.entrant_index = e /\ d # NULL /\ r.device_id = d}

\* GET /api/my-rating?entrant_index=arg
api_my_rating(arg, cookie) ==
    LET e == IntOfStr(ArgOrDefault(arg))
        d == device_id_from_request(cookie)
        found == SelectRating(ratings, e.val, d)
    IN  /\ IF ~e.ok
           THEN resp' = [NoResp EXCEPT !.kind = "my-rating", !.device = d,
                                       !.arg = arg, !.status = HTTP_BAD_REQUEST,
                                       !.error = "Bad entrant index"]
           ELSE IF ~ValidEntrant(e.val) \/ found = {}
           THEN resp' = MyRating(arg, d, e.val, NoRating)
           ELSE \E r \in found : resp' = MyRating(arg, d, e.val, RatingOf(r))
        /\ UNCHANGED <<ratings, now, session, inflight, writer, pending, last, granted>>

(* -------------------------- GET /api/leaderboard ---------------------- *)

\* The sum of f[r] over the rows r of S
RECURSIVE SumOver(_, _)
SumOver(S, f) ==
    IF S = {} THEN 0
    ELSE LET r == CHOOSE x \in S : TRUE IN f[r] + SumOver(S \ {r}, f)

\* taste + presentation + easy
Total(r) == r.taste + r.presentation + r.easy

\* COUNT(judge), which skips the rows whose judge is NULL
CountJudge(rs) == Cardinality({r \in rs : r.judge # NULL})

\* COUNT(*)
Votes(rs) == Cardinality(rs)

\* One row of SELECT ... GROUP BY entrant_index. An AVG is kept exact, as the
\* pair (sum, n), n the number of rows it averages (no score is NULL).
Group(table, e) ==
    LET rs == {r \in table : r.entrant_index = e}
    IN  [entrant_index |-> e, votes |-> Votes(rs), n |-> Cardinality(rs),
         sum_taste |-> SumOver(rs, [r \in rs |-> r.taste]),
         sum_presentation |-> SumOver(rs, [r \in rs |-> r.presentation]),
         sum_easy |-> SumOver(rs, [r \in rs |-> r.easy]),
         sum_total |-> SumOver(rs, [r \in rs |-> Total(r)])]

GroupBy(table) == {Group(table, e) : e \in {r.entrant_index : r \in table}}

\* ORDER BY the sum of the totals instead of their average
OrderBySumTotalDesc(a, b) == a.sum_total >= b.sum_total

\* ORDER BY avg_total DESC: a may come before b (avg a >= avg b, cross-multiplied)
OrderByAvgTotalDesc(a, b) == a.sum_total * b.n >= b.sum_total * a.n

\* The sequences that list every element of S once
Orderings(S) ==
    {f \in [1..Cardinality(S) -> S] : \A i, j \in DOMAIN f : i # j => f[i] # f[j]}

\* The orders a query may return its rows in: any order the ORDER BY allows
\* (SQL leaves the order of ties open)
Sorted(S, before) ==
    {f \in Orderings(S) : \A i, j \in DOMAIN f : i < j => <<f[i], f[j]>> \in before}

\* The ORDER BY clauses, as the pairs <<a, b>> where a may come before b
ByAvgTotalDesc(S) == {p \in S \X S : OrderByAvgTotalDesc(p[1], p[2])}

\* Truncation to 2 decimals instead of rounding
Floor2(sum, n) == (100 * sum) \div n

\* round(sum / n, 2) in hundredths, for sum >= 0: to the nearest hundredth. An
\* exact tie needs 8 | n in lowest terms; Python then rounds a representable
\* half to even.
Round2(sum, n) ==
    LET q == (100 * sum) \div n
        r == (100 * sum) % n
    IN  IF 2 * r < n THEN q
        ELSE IF 2 * r > n THEN q + 1
        ELSE IF q % 2 = 0 THEN q ELSE q + 1

\* One entry of the leaderboard JSON; the averages are in hundredths
Entry(g) ==
    [name |-> EntrantName(g.entrant_index), votes |-> g.votes,
     avg_taste |-> Round2(g.sum_taste, g.n),
     avg_presentation |-> Round2(g.sum_presentation, g.n),
     avg_easy |-> Round2(g.sum_easy, g.n),
     avg_total |-> Round2(g.sum_total, g.n)]

api_leaderboard ==
    /\ \E rows \in Sorted(GroupBy(ratings), ByAvgTotalDesc(GroupBy(ratings))) :
          resp' = [NoResp EXCEPT !.kind = "leaderboard", !.status = HTTP_OK,
                                 !.ok = TRUE,
                                 !.entries = [i \in DOMAIN rows |-> Entry(rows[i])]]
    /\ UNCHANGED <<ratings, now, session, inflight, writer, pending, last, granted>>

(* ---------------------------- GET /export.csv ------------------------- *)

\* ",".join(fields)
RECURSIVE Join(_)
Join(fields) ==
    IF fields = <<>> THEN <<>>
    ELSE IF Len(fields) = 1 THEN fields[1]
    ELSE fields[1] \o <<",">> \o Join(Tail(fields))

\* r["judge"] or "" : NULL and the empty text are falsy
OrEmpty(x) == IF x = NULL THEN <<>> ELSE x

\* '"' + name.replace('"','""') + '"'
QuoteName(name) == <<QUOTE>> \o ReplaceQuote(name) \o <<QUOTE>>

\* '"' + (r["judge"] or "").replace('"','""') + '"'
QuoteJudge(judge) == <<QUOTE>> \o ReplaceQuote(OrEmpty(judge)) \o <<QUOTE>>

\* '"' + (r["device_id"] or "") + '"'
QuoteDevice(device_id) == <<QUOTE>> \o OrEmpty(device_id) \o <<QUOTE>>

\* The list `line` of generate() for one row
Line(r) ==
    << Str(r.id), QuoteName(EntrantName(r.entrant_index)), Str(r.taste),
       Str(r.presentation), Str(r.easy), QuoteJudge(r.judge),
       QuoteDevice(r.device_id), Str(r.created_at) >>

\* ORDER BY created_at ASC
OrderByCreatedAt(a, b) == a.created_at <= b.created_at

ByCreatedAt(S) == {p \in S \X S : OrderByCreatedAt(p[1], p[2])}

\* The access check of export_csv: the route has none
ExportAllowed(s) == TRUE

\* GET /export.csv from session s: rows is what fetchall() returned, lines[i]
\* the fields of the line of rows[i], text its ",".join(line) + "\n"
export_csv(s) ==
    /\ ExportAllowed(s)
    /\ \E rows \in Sorted(ratings, ByCreatedAt(ratings)) :
          resp' = [NoResp EXCEPT !.kind = "export", !.status = HTTP_OK, !.ok = TRUE,
                                 !.sess = s, !.rows = rows,
                                 !.lines = [i \in DOMAIN rows |->
                                     [fields |-> Line(rows[i]),
                                      text |-> Join(Line(rows[i])) \o <<"\n">>]]]
    /\ UNCHANGED <<ratings, now, session, inflight, writer, pending, last, granted>>

(* --------------------------------- /admin ----------------------------- *)

ADMIN_PASSWORD ==
    <<"M", "A", "S", "T", "E", "R", "C", "H", "E", "F", "2", "0", "2", "5">>

\* (request.form.get("password") or "").strip() == ADMIN_PASSWORD
PasswordMatches(pw) == Strip(OrEmpty(pw)) = ADMIN_PASSWORD

\* POST /admin from session s with form field password = pw (NULL: absent)
admin_post(s, pw) ==
    /\ IF PasswordMatches(pw)
       THEN /\ session' = [session EXCEPT ![s] = TRUE]
            /\ resp' = [NoResp EXCEPT !.kind = "admin-post", !.status = HTTP_FOUND,
                                      !.sess = s, !.view = "redirect:/admin"]
       ELSE /\ resp' = [NoResp EXCEPT !.kind = "admin-post", !.status = HTTP_OK,
                                      !.sess = s, !.view = "admin_login.html",
                                      !.error = "Incorrect password"]
            /\ UNCHANGED session
    /\ granted' = [granted EXCEPT ![s] = @ \/ (pw # NULL /\ Strip(pw) = ADMIN_PASSWORD)]
    /\ UNCHANGED <<ratings, now, inflight, writer, pending, last>>

\* ORDER BY r.entrant_index ASC, r.created_at ASC
OrderByEntrantCreatedAt(a, b) ==
    \/ a.entrant_index < b.entrant_index
    \/ a.entrant_index = b.entrant_index /\ a.created_at <= b.created_at

ByEntrantCreatedAt(S) == {p \in S \X S : OrderByEntrantCreatedAt(p[1], p[2])}

\* One element of `detailed`
Detailed(r) ==
    [id |-> r.id, entrant |-> EntrantName(r.entrant_index), taste |-> r.taste,
     presentation |-> r.presentation, easy |-> r.easy, total |-> Total(r),
     judge |-> OrEmpty(r.judge), device_id |-> OrEmpty(r.device_id),
     created_at |-> r.created_at]

\* One element of lb_data
Snapshot(g) ==
    [name |-> EntrantName(g.entrant_index), votes |-> g.votes,
     avg_total |-> Round2(g.sum_total, g.n)]

\* session.get("is_admin")
IsAdmin(s) == session[s]

\* GET /admin from session s
admin_get(s) ==
    /\ IF ~IsAdmin(s)
       THEN resp' = [NoResp EXCEPT !.kind = "admin", !.status = HTTP_OK, !.sess = s,
                                   !.view = "admin_login.html"]
       ELSE \E rows \in Sorted(ratings, ByEntrantCreatedAt(ratings)),
               lb \in Sorted(GroupBy(ratings), ByAvgTotalDesc(GroupBy(ratings))) :
               resp' = [NoResp EXCEPT !.kind = "admin", !.status = HTTP_OK, !.sess = s,
                                      !.ok = TRUE, !.view = "admin_results.html",
                                      !.rows = [i \in DOMAIN rows |-> Detailed(rows[i])],
                                      !.entries = [i \in DOMAIN lb |-> Snapshot(lb[i])]]
    /\ UNCHANGED <<ratings, now, session, inflight, writer, pending, last, granted>>

\* A logout that leaves the flag in the session
PopNothing(s) == session

\* session.pop("is_admin", None)
Pop(s) == [session EXCEPT ![s] = FALSE]

\* GET /admin/logout from session s
admin_logout(s) ==
    /\ session' = Pop(s)
    /\ granted' = [granted EXCEPT ![s] = FALSE]
    /\ resp' = [NoResp EXCEPT !.kind = "logout", !.status = HTTP_FOUND, !.sess = s,
                              !.view = "redirect:/admin"]
    /\ UNCHANGED <<ratings, now, inflight, writer, pending, last>>

(* ------------------- POST /api/rate, worker by worker ----------------- *)

\* Lines 62-79: worker w parses and validates a request; an invalid one is
\* answered at once
rate_receive(w, body, cookie) ==
    LET v == Validate(body)
        d == device_id_from_request(cookie)
    IN  /\ inflight[w] = Idle
        /\ IF v.error # NoError
           THEN /\ resp' = RateError(v.error)
                /\ UNCHANGED inflight
           ELSE /\ inflight' = [inflight EXCEPT ![w] =
                       [pc |-> "execute", entrant_index |-> v.entrant_index,
                        taste |-> v.taste, presentation |-> v.presentation,
                        easy |-> v.easy, judge |-> v.judge, device_id |-> d]]
                /\ UNCHANGED resp
        /\ UNCHANGED <<ratings, now, session, writer, pending, last, granted>>

\* Lines 81-92: db.execute runs the statement in a write transaction of worker
\* w's own connection; SQLite admits one writer, the others wait for its commit
rate_execute(w) ==
    LET q == inflight[w]
        u == Upsert(ratings, q.entrant_index, q.taste, q.presentation, q.easy,
                    q.judge, q.device_id, now)
    IN  /\ q.pc = "execute"
        /\ writer = 0
        /\ IF u.ok
           THEN /\ pending' = u.table
                /\ writer' = w
                /\ inflight' = [inflight EXCEPT ![w].pc = "commit"]
                /\ UNCHANGED resp
           ELSE /\ resp' = RateFailure
                /\ inflight' = [inflight EXCEPT ![w] = Idle]
                /\ UNCHANGED <<pending, writer>>
        /\ UNCHANGED <<ratings, now, session, last, granted>>

\* Lines 93-94: db.commit() publishes the transaction and frees the write lock
rate_commit(w) ==
    LET q == inflight[w]
    IN  /\ q.pc = "commit"
        /\ writer = w
        /\ ratings' = pending
        /\ pending' = {}
        /\ writer' = 0
        /\ inflight' = [inflight EXCEPT ![w] = Idle]
        /\ resp' = RateOk
        /\ last' = Record(last, q.entrant_index, q.device_id, q.taste,
                          q.presentation, q.easy, q.judge, now)
        /\ UNCHANGED <<now, session, granted>>

(* ------------------------------- inputs ------------------------------- *)

BOB == <<"B", "o", "b">>

\* The score triples the accepted requests carry
A543 == <<5, 4, 3>>
B112 == <<1, 1, 2>>

IntBody(e, t, j) == Body(JInt(e), JInt(t[1]), JInt(t[2]), JInt(t[3]), j)

\* Well-formed bodies; the judge " Bob " is stored as "Bob"
BodyA(e) == IntBody(e, A543, JStr(<<SP>> \o BOB \o <<SP>>))
BodyB(e) == IntBody(e, B112, JNull)

\* The values of BodyB(0) written as JSON strings and a boolean:
\* ("0", " 1", "+1", true), with a judge of one space
StringBody ==
    Body(JStr(<<"0">>), JStr(<<SP, "1">>), JStr(<<"+", "1">>), JBool(TRUE), JStr(<<SP>>))

\* Bodies that lack a field, carry a field of the wrong kind, or are out of range
BadBodies ==
    { [EmptyDict EXCEPT !.kind = "none"],
      [BodyA(FIRST) EXCEPT !.kind = "list"],
      [BodyA(FIRST) EXCEPT !.taste = JNull],
      [BodyA(FIRST) EXCEPT !.easy = JStr(<<"a", "b", "c">>)],
      [BodyA(FIRST) EXCEPT !.presentation = JStr(<<"4", ".", "5">>)],
      [BodyA(FIRST) EXCEPT !.entrant_index = JNull],
      [BodyA(FIRST) EXCEPT !.judge = JInt(7)],
      BodyA(LAST + 1),
      BodyA(-1),
      [BodyA(FIRST) EXCEPT !.taste = JInt(0)],
      [BodyA(FIRST) EXCEPT !.presentation = JInt(6)],
      [BodyA(FIRST) EXCEPT !.easy = JInt(6)] }

\* Bodies with a number that is no integer: taste 5.5, entrant_index -0.5
FloatBodies ==
    { [BodyA(FIRST) EXCEPT !.taste = JNum(11)],
      [BodyB(FIRST) EXCEPT !.entrant_index = JNum(-1)] }

\* The device_id cookie of the i-th device that GET / issued one to
Device(i) == <<"d">> \o Str(i)

D1 == Device(1)

\* POST /api/rate requests <<body, device_id cookie>>; the cookie is absent
\* (NULL), empty, or one that GET / issued
RateRequests ==
    {<<BodyA(FIRST), NULL>>, <<BodyB(FIRST), <<>>>>, <<BodyA(FIRST), ANON>>,
     <<StringBody, NULL>>, <<BodyA(FIRST), D1>>, <<BodyA(LAST), D1>>}
    \cup {<<b, D1>> : b \in BadBodies}
    \cup {<<b, NULL>> : b \in FloatBodies}

\* Spec: the clock and POST /api/rate, one request at a time
Next ==
    \/ Tick
    \/ \E rq \in RateRequests : api_rate(rq[1], rq[2])

Spec == Init /\ [][Next]_vars

\* SpecRead: POST /api/rate and GET /api/my-rating
ReadRequests ==
    {<<BodyA(FIRST), NULL>>, <<BodyB(FIRST), NULL>>, <<BodyA(FIRST), D1>>,
     <<BodyB(FIRST), D1>>, <<BodyA(LAST), D1>>, <<BodyA(LAST + 1), D1>>}

\* The integers a client asks about, sent as str(e)
ArgInts == {-1, FIRST, LAST, LAST + 1}

\* entrant_index query arguments: absent, integers, a padded integer, others
Args ==
    {NULL, <<SP, "0", SP>>, <<"x">>, <<"1", ".", "5">>} \cup {Str(e) : e \in ArgInts}

ReadCookies == {NULL, D1}

NextRead ==
    \/ \E rq \in ReadRequests : api_rate(rq[1], rq[2])
    \/ \E a \in Args, c \in ReadCookies : api_my_rating(a, c)

SpecRead == Init /\ [][NextRead]_vars

\* SpecBoard: POST /api/rate and GET /api/leaderboard; MaxDevices devices, one
\* of them without a cookie, rate the first entrant, one rates the last
BoardCookies == {NULL} \cup {Device(i) : i \in 1..(MaxDevices - 1)}

BoardRequests ==
    {<<b, c>> : b \in {BodyA(FIRST), BodyB(FIRST)}, c \in BoardCookies}
    \cup {<<BodyA(LAST), D1>>, <<BodyB(LAST), D1>>}

NextBoard ==
    \/ \E rq \in BoardRequests : api_rate(rq[1], rq[2])
    \/ api_leaderboard

SpecBoard == Init /\ [][NextBoard]_vars

\* SpecAdmin: the admin gate and the export, with rows whose judge and device
\* identifier hold a double quote and a comma
JQ == <<"J", QUOTE, ",", "k">>
DQ == <<"a", QUOTE, ",", "b">>

AdminRequests ==
    {<<IntBody(FIRST, A543, JStr(JQ)), DQ>>, <<BodyB(LAST), NULL>>}

\* password form fields: absent, empty, wrong, right, right with blanks around
Passwords ==
    {NULL, <<>>, <<"x">>, ADMIN_PASSWORD, <<SP>> \o ADMIN_PASSWORD \o <<SP>>}

NextAdmin ==
    \/ \E rq \in AdminRequests : api_rate(rq[1], rq[2])
    \/ \E s \in Sessions, pw \in Passwords : admin_post(s, pw)
    \/ \E s \in Sessions : admin_get(s)
    \/ \E s \in Sessions : admin_logout(s)
    \/ \E s \in Sessions : export_csv(s)

SpecAdmin == Init /\ [][NextAdmin]_vars

\* SpecConc: POST /api/rate handled by the workers concurrently
ConcRequests ==
    {<<BodyA(FIRST), NULL>>, <<BodyB(FIRST), NULL>>, <<BodyA(FIRST), D1>>,
     <<BodyA(LAST + 1), NULL>>}

NextConc ==
    \/ \E w \in Workers, rq \in ConcRequests : rate_receive(w, rq[1], rq[2])
    \/ \E w \in Workers : rate_execute(w)
    \/ \E w \in Workers : rate_commit(w)

SpecConc == Init /\ [][NextConc]_vars

(* ------------------------------ properties ---------------------------- *)

\* The rows of table t stored for entrant e and device identifier d
RowsOf(t, e, d) == {r \in t : r.entrant_index = e /\ r.device_id = d}

\* Row r carries the values of the submission h and the time of the first one
Reflects(r, h) ==
    /\ r.taste = h.taste
    /\ r.presentation = h.presentation
    /\ r.easy = h.easy
    /\ r.judge = h.judge
    /\ r.created_at = h.first

\* C1: after any sequence of accepted POST /api/rate submissions the table holds
\* exactly one row for each (entrant index, device identifier) pair that has
\* submitted and no other row; the row carries the taste, presentation, easy and
\* judge of the pair's latest accepted submission and the created_at of its
\* first one.
C1_OneRowPerPair ==
    /\ \A k \in DOMAIN last : Cardinality(RowsOf(ratings, k[1], k[2])) = 1
    /\ \A r \in ratings :
          /\ <<r.entrant_index, r.device_id>> \in DOMAIN last
          /\ Reflects(r, last[<<r.entrant_index, r.device_id>>])

\* Two pairs have rows, and one of them was rated again, with another judge, after
\* the clock had advanced
C1_Witness ==
    /\ Cardinality(ratings) >= 2
    /\ \E r \in ratings :
          LET h == last[<<r.entrant_index, r.device_id>>]
          IN  h.at > h.first /\ r.created_at = h.first /\ r.judge = NULL /\ r.taste = 1

\* A field that is absent or that is not the text of an integer
NotANumber(v) == v.t = "null" \/ (v.t = "str" /\ ~IntOfStr(v.s).ok)

\* Twice the number a field holds
TwiceOf(v) == IF v.t = "str" THEN 2 * IntOfStr(v.s).val ELSE v.n

\* The number a field holds lies outside lo..hi
Outside(v, lo, hi) == ~NotANumber(v) /\ (TwiceOf(v) < 2 * lo \/ TwiceOf(v) > 2 * hi)

\* A body with a missing or malformed field, an entrant index outside
\* 0..len(ENTRANTS)-1, or a score outside [1,5]
Rejectable(b) ==
    \/ b.kind # "dict"
    \/ \E v \in {b.entrant_index, b.taste, b.presentation, b.easy} : NotANumber(v)
    \/ Outside(b.entrant_index, FIRST, LAST)
    \/ \E v \in {b.taste, b.presentation, b.easy} : Outside(v, SCORE_MIN, SCORE_MAX)

\* The request was refused and the table left as it was
Refused ==
    /\ ratings' = ratings
    /\ resp'.kind = "rate" /\ ~resp'.ok /\ resp'.status = HTTP_BAD_REQUEST

\* C2: a POST /api/rate with a missing or malformed field, an entrant index
\* outside 0..len(ENTRANTS)-1 or a score outside [1,5] is answered ok=false with
\* HTTP 400 and leaves the table as it was.
C2_InvalidRefused ==
    [][\A rq \in RateRequests :
          (Rejectable(rq[1]) /\ api_rate(rq[1], rq[2])) => Refused]_vars

\* Every number of the body is an integer
IntegerValued(b) ==
    \A v \in {b.entrant_index, b.taste, b.presentation, b.easy} :
        v.t = "num" => v.n % 2 = 0

\* The statement of C2 for the bodies whose numbers are integers
InvalidIntegerBodyRefused ==
    [][\A rq \in RateRequests :
          (Rejectable(rq[1]) /\ IntegerValued(rq[1]) /\ api_rate(rq[1], rq[2]))
              => Refused]_vars

\* C3: GET /admin renders the detailed results if and only if the session has
\* POSTed the correct password and has not logged out since; otherwise it
\* renders the password prompt. A login in one session grants nothing to another.
C3_AdminGate ==
    resp.kind = "admin" =>
        /\ resp.view \in {"admin_results.html", "admin_login.html"}
        /\ resp.view = "admin_results.html" <=> granted[resp.sess]

\* One session is shown the results of a table that has rows, while the other
\* session has not logged in
C3_Witness ==
    /\ resp.kind = "admin" /\ resp.view = "admin_results.html"
    /\ \E s \in Sessions : s # resp.sess /\ ~granted[s] /\ ~session[s]
    /\ ratings # {}

\* C4: GET /export.csv from a session that has not submitted the correct admin
\* password does not return the rating rows.
C4_ExportGated ==
    (resp.kind = "export" /\ ~granted[resp.sess]) => resp.rows = <<>>

\* The keys of the leaderboard entries, as entrant indexes
IndexOfName(name) == CHOOSE e \in FIRST..LAST : EntrantName(e) = name

EntrantRows(e) == {r \in ratings : r.entrant_index = e}

\* C5: GET /api/leaderboard returns exactly one entry for each entrant with at
\* least one stored rating, with votes equal to the number of its stored rows,
\* and no entry for an entrant with no stored rating.
C5_LeaderboardEntries ==
    resp.kind = "leaderboard" =>
        \A e \in FIRST..LAST :
            LET at == {i \in DOMAIN resp.entries : resp.entries[i].name = EntrantName(e)}
            IN  IF EntrantRows(e) = {} THEN at = {}
                ELSE /\ Cardinality(at) = 1
                     /\ \A i \in at : resp.entries[i].votes = Cardinality(EntrantRows(e))

\* A leaderboard of two entrants, one with three votes, one of them from a row
\* without a judge
C5_Witness ==
    /\ resp.kind = "leaderboard"
    /\ Len(resp.entries) = 2
    /\ \E i \in DOMAIN resp.entries : resp.entries[i].votes = 3
    /\ \E r \in ratings : r.judge = NULL

\* The sum of taste + presentation + easy over a set of rows
RECURSIVE TotalOf(_)
TotalOf(rs) ==
    IF rs = {} THEN 0
    ELSE LET r == CHOOSE x \in rs : TRUE
         IN  r.taste + r.presentation + r.easy + TotalOf(rs \ {r})

\* mean total of entrant a >= mean total of entrant b
MeanTotalGeq(a, b) ==
    TotalOf(EntrantRows(a)) * Cardinality(EntrantRows(b))
        >= TotalOf(EntrantRows(b)) * Cardinality(EntrantRows(a))

\* C6: the entries of GET /api/leaderboard are sorted descending by mean total
\* score: of two consecutive entries the first entrant's mean of
\* taste + presentation + easy is greater than or equal to the second's.
C6_SortedByMeanTotal ==
    resp.kind = "leaderboard" =>
        \A i \in 1..(Len(resp.entries) - 1) :
            MeanTotalGeq(IndexOfName(resp.entries[i].name),
                         IndexOfName(resp.entries[i + 1].name))

\* The last entrant leads with a strictly greater mean although the first
\* entrant has more votes and the same sum of totals
C6_Witness ==
    /\ resp.kind = "leaderboard"
    /\ Len(resp.entries) = 2
    /\ resp.entries[1].name = EntrantName(LAST)
    /\ resp.entries[1].avg_total > resp.entries[2].avg_total
    /\ resp.entries[2].votes = 3
    /\ TotalOf(EntrantRows(FIRST)) = TotalOf(EntrantRows(LAST))

\* h hundredths is sum / n rounded to 2 decimals: no hundredth is nearer
Rounded(h, sum, n) ==
    LET d == 100 * sum - h * n IN 2 * d <= n /\ -2 * d <= n

\* The sum of one score over a set of rows
RECURSIVE ScoreOf(_, _)
ScoreOf(rs, f) ==
    IF rs = {} THEN 0
    ELSE LET r == CHOOSE x \in rs : TRUE IN r[f] + ScoreOf(rs \ {r}, f)

\* C7: for every entrant of the leaderboard avg_taste, avg_presentation and
\* avg_easy equal the arithmetic mean of that score over the entrant's stored
\* rows and avg_total the mean of taste + presentation + easy, each rounded to
\* 2 decimals; an entrant whose only rating is (5,4,3) has votes 1 and
\* avg_total 12.00.
C7_Averages ==
    resp.kind = "leaderboard" =>
        \A i \in DOMAIN resp.entries :
            LET en == resp.entries[i]
                rs == EntrantRows(IndexOfName(en.name))
                n == Cardinality(rs)
            IN  /\ n > 0
                /\ Rounded(en.avg_taste, ScoreOf(rs, "taste"), n)
                /\ Rounded(en.avg_presentation, ScoreOf(rs, "presentation"), n)
                /\ Rounded(en.avg_easy, ScoreOf(rs, "easy"), n)
                /\ Rounded(en.avg_total, TotalOf(rs), n)
                /\ (\A r \in rs : n = 1 /\ r.taste = 5 /\ r.presentation = 4 /\ r.easy = 3)
                       => (en.votes = 1 /\ en.avg_total = 1200)

\* One entrant's only rating is (5,4,3), shown with votes 1 and avg_total 12.00;
\* the other has the tastes 5, 5, 1, whose mean 3.666... is shown as 3.67
C7_Witness ==
    /\ resp.kind = "leaderboard"
    /\ \E i, j \in DOMAIN resp.entries :
          /\ resp.entries[i].votes = 1 /\ resp.entries[i].avg_total = 1200
          /\ \A r \in EntrantRows(IndexOfName(resp.entries[i].name)) :
                 r.taste = 5 /\ r.presentation = 4 /\ r.easy = 3
          /\ resp.entries[j].votes = 3 /\ resp.entries[j].avg_taste = 367

\* What GET /api/my-rating is to return to device d asking for entrant e
ExpectedRating(e, d) ==
    IF ValidEntrant(e) /\ <<e, d>> \in DOMAIN last
    THEN LET h == last[<<e, d>>]
         IN  [null |-> FALSE, taste |-> h.taste, presentation |-> h.presentation,
              easy |-> h.easy, judge |-> h.judge]
    ELSE NoRating

\* C8: GET /api/my-rating?entrant_index=e from device d returns ok=true with the
\* taste, presentation, easy and judge of d's latest accepted submission for e,
\* and ok=true with rating null when d has never rated e or e is out of range;
\* submissions by other devices or for other entrants do not change the result.
C8_MyRating ==
    \A e \in ArgInts :
        (resp.kind = "my-rating" /\ resp.arg = Str(e)) =>
            /\ resp.ok /\ resp.status = HTTP_OK
            /\ resp.rating = ExpectedRating(e, resp.device)

\* A device reads back its second submission for the first entrant while another
\* device holds other scores for that entrant and a row exists for the last one
C8_Witness ==
    /\ resp.kind = "my-rating" /\ resp.arg = Str(FIRST) /\ resp.device = ANON
    /\ ~resp.rating.null /\ resp.rating.taste = 1
    /\ \E r \in ratings : r.entrant_index = FIRST /\ r.device_id = D1 /\ r.taste = 5
    /\ \E r \in ratings : r.entrant_index = FIRST /\ r.device_id = ANON /\ r.id = 1
    /\ \E r \in ratings : r.entrant_index = LAST
    /\ Cardinality(ratings) = 3

\* C9: valid POST /api/rate requests for the same pair that are handled
\* concurrently all succeed: none meets a uniqueness failure, neither when it has
\* run nor when it is about to, and the committed table and the open transaction
\* hold one row for the pair, the committed one with the values of the request
\* applied last.
C9_ConcurrentUpsert ==
    /\ resp.status # HTTP_SERVER_ERROR
    /\ \A w \in Workers :
          inflight[w].pc = "execute" =>
              LET q == inflight[w]
              IN  Upsert(IF writer = 0 THEN ratings ELSE pending, q.entrant_index,
                         q.taste, q.presentation, q.easy, q.judge, q.device_id, now).ok
    /\ \A t \in {ratings, pending} : \A r1, r2 \in t :
          (r1.entrant_index = r2.entrant_index /\ r1.device_id = r2.device_id)
              => r1 = r2
    /\ \A k \in DOMAIN last :
          /\ Cardinality(RowsOf(ratings, k[1], k[2])) = 1
          /\ \A r \in RowsOf(ratings, k[1], k[2]) : Reflects(r, last[k])

\* Two workers hold valid requests with different scores for a pair that already
\* has a row: one has executed its statement, the other waits for the write lock
C9_Witness ==
    \E w1, w2 \in Workers :
        /\ inflight[w1].pc = "commit" /\ inflight[w2].pc = "execute"
        /\ inflight[w1].entrant_index = inflight[w2].entrant_index
        /\ inflight[w1].device_id = inflight[w2].device_id
        /\ inflight[w1].taste # inflight[w2].taste
        /\ RowsOf(ratings, inflight[w1].entrant_index, inflight[w1].device_id) # {}

\* s with every double quote doubled
RECURSIVE Doubled(_)
Doubled(s) ==
    IF s = <<>> THEN <<>>
    ELSE Doubled(SubSeq(s, 1, Len(s) - 1))
             \o (IF s[Len(s)] = QUOTE THEN <<QUOTE, QUOTE>> ELSE <<s[Len(s)]>>)

\* A CSV text field: the value in double quotes, its double quotes doubled
CsvField(x) == <<QUOTE>> \o Doubled(IF x = NULL THEN <<>> ELSE x) \o <<QUOTE>>

\* C10: in every line of GET /export.csv after the header the entrant name, the
\* judge and the device identifier are each wrapped in double quotes with every
\* double quote of the stored value doubled.
C10_CsvFieldsQuoted ==
    resp.kind = "export" =>
        \A i \in DOMAIN resp.lines :
            LET f == resp.lines[i].fields
                r == resp.rows[i]
            IN  /\ f[2] = CsvField(EntrantName(r.entrant_index))
                /\ f[6] = CsvField(r.judge)
                /\ f[7] = CsvField(r.device_id)

\* The statement of C10 for the entrant name and the judge alone
NameAndJudgeQuoted ==
    resp.kind = "export" =>
        \A i \in DOMAIN resp.lines :
            LET f == resp.lines[i].fields
                r == resp.rows[i]
            IN  /\ f[2] = CsvField(EntrantName(r.entrant_index))
                /\ f[6] = CsvField(r.judge)

====
